---- MODULE Spec2Model ----
(***************************************************************************)
(* usb_hid_sniffer_rs: the interactive interrupt-capture session           *)
(* (write_to_device) and the device enumeration (UsbDevices::new) of       *)
(* src/main.rs, as state machines.                                         *)
(*                                                                         *)
(* The capture session is cut at its suspension points: every action is    *)
(* the code that runs from the return of one blocking call (an interrupt   *)
(* read or a console read_line) up to the next blocking call.              *)
(***************************************************************************)
EXTENDS Integers, Sequences, FiniteSets, TLC

(* ------------------------------ bounds --------------------------------- *)
\* most entries one session accumulates (the N choice is cut off there)
MaxKeys == 2
\* most reports the device holds queued for the host
MaxQueue == 1

(* ------------------------- program constants --------------------------- *)
\* length of the report buffer, [0u8; 8]
BufLen == 8

VARIABLES
    pc,         \* control position of write_to_device
    keymaps,    \* the accumulator, Vec<Keymap>
    s,          \* the name line read at the name prompt (String s, line 380)
    devq,       \* reports the device holds ready for the endpoint, oldest first
    out,        \* what the last step printed on the console
    file,       \* config.json
    exit,       \* process exit status, -1 while running
    good,       \* history: one Keymap per blocking read that succeeded
    failed,     \* history: the value of `good` at the first failed blocking read
    stale,      \* history: a report was queued when the pending read was issued
    leftover,   \* history: a stored report was queued before its blocking read
    lastDrain,  \* history: outcome of the most recent drain read
    persist,    \* history: outcome of each Keymap Store invocation
    bus,        \* the raw devices the context lists, in enumeration order
    di,         \* position of the `for i in devices.iter()` loop
    usb_devices,\* UsbDevices.devices being built
    result,     \* what UsbDevices::new returned
    lookup,     \* the get_by_id call of get_device_info: its argument and result
    class_byte, \* the argument of ClassCode::from_u8
    category,   \* the ClassCode it returned
    ops,        \* the calls issued on the opened handle before the loop
    nexts       \* history: the N/n choices accepted so far

vars == <<pc, keymaps, s, devq, out, file, exit,
          good, failed, stale, leftover, lastDrain, persist,
          bus, di, usb_devices, result, lookup, class_byte, category, ops, nexts>>

session_vars == <<keymaps, s, devq, out, file, exit,
                  good, failed, stale, leftover, lastDrain, persist, ops, nexts>>
enum_vars == <<bus, di, usb_devices, result, lookup>>
class_vars == <<class_byte, category>>

(* ------------------------------ inputs --------------------------------- *)
\* reports the device can produce: a short 3-byte report and the 8-byte
\* report of a key
Reports ==
    { <<7, 7, 7>>, <<1, 0, 0, 0, 0, 0, 0, 0>> }

\* what stdin can deliver to one read_line call: Ok with the bytes up to and
\* including the newline, Ok with no newline at end of input, or Err
NameLines == { <<"A", "\n">>, <<"B", "\n">>, <<"\n">>, <<>> }
MenuLines == { <<"Q", "\n">>, <<"q", "\n">>, <<"N", "\n">>, <<"n", "\n">>,
               <<"X", "\n">>, <<"Q", "\r", "\n">>, <<>> }
ReadLineResults(lines) ==
    { [ok |-> TRUE, line |-> l] : l \in lines } \cup { [ok |-> FALSE, line |-> <<>>] }

(* ------------------------------ helpers -------------------------------- *)
\* let mut buf = [0u8; 8]
ZeroBuf == [i \in 1..BufLen |-> 0]

\* the buffer after a transfer of `data` into it
Fill(buf, data) ==
    [i \in 1..BufLen |-> IF i <= Len(data) THEN data[i] ELSE buf[i]]

\* fault: the newline recognised but left in place
strip_suffix_Keep(str) ==
    IF Len(str) > 0 /\ str[Len(str)] = "\n"
    THEN [some |-> TRUE, val |-> str]
    ELSE [some |-> FALSE, val |-> <<>>]

\* str::strip_suffix("\n"): Some(prefix) when the text ends in a newline
None == [some |-> FALSE, val |-> <<>>]
Some(v) == [some |-> TRUE, val |-> v]
strip_suffix(str) ==
    IF Len(str) > 0 /\ str[Len(str)] = "\n"
    THEN Some(SubSeq(str, 1, Len(str) - 1))
    ELSE None

Keymap(name, buf) == [key_name |-> name, map |-> buf]

\* fault: the entries serialised newest first
to_string_Reversed(ks) ==
    [i \in 1..Len(ks) |->
        <<"key_name", ks[Len(ks) + 1 - i].key_name, "map", ks[Len(ks) + 1 - i].map>>]

\* serde_json::to_string(&keymaps): a JSON array of objects, one per entry
to_string(ks) ==
    [i \in 1..Len(ks) |-> <<"key_name", ks[i].key_name, "map", ks[i].map>>]

\* a config.json left by an earlier session, or none
NoFile == [exists |-> FALSE, text |-> <<>>]
OldFile == [exists |-> TRUE,
            text |-> to_string(<<Keymap(<<"Z">>, ZeroBuf)>>)]

\* handler.read_interrupt(endpoint, &mut buf, timeout) on a buffer of zeros:
\* Ok(n) with the oldest queued report, Ok(0) or Err(Timeout) when nothing
\* is queued within the timeout, Err at any time (stall, I/O error, device
\* gone, interface not claimed)
ReadQueued(q) ==
    IF q = <<>> THEN {}
    ELSE { [ok |-> TRUE, size |-> Len(Head(q)), buf |-> Fill(ZeroBuf, Head(q)),
            rest |-> Tail(q)] }
ReadFailed(q) ==
    { [ok |-> FALSE, size |-> 0, buf |-> ZeroBuf, rest |-> q] }
ReadNothing(q) ==
    IF q = <<>>
    THEN { [ok |-> TRUE, size |-> 0, buf |-> ZeroBuf, rest |-> q] }
    ELSE {}
\* Duration::from_millis(100)
TimedRead(q) == ReadQueued(q) \cup ReadNothing(q) \cup ReadFailed(q)
\* Duration::default(): no timeout, the read waits for a report
BlockingRead(q) == ReadQueued(q) \cup ReadFailed(q)

\* fault: a failed drain read counted as a report that was read
unwrap_or_1(res) == IF res.ok THEN res.size ELSE 1

\* .unwrap_or(0) on the Result of a drain read
unwrap_or_0(res) == IF res.ok THEN res.size ELSE 0

\* fault: the drain loop left after its first read, whatever it returned
DrainBreak_Always(size) == TRUE

\* if size == 0 { break; }
DrainBreak(size) == size = 0

\* fault: the accumulator overwritten by the new entry
push_Replace(ks, k) == <<k>>

\* keymaps.push(k)
push(ks, k) == Append(ks, k)

\* fault: every choice but Q/q taken as N
MatchChoice_RestIsNext(choice) ==
    IF choice \in { <<"Q">>, <<"q">> } THEN "quit" ELSE "next"

\* match s { "Q" | "q" => break 'outer, "N" | "n" => break 'options, _ => .. }
MatchChoice(choice) ==
    CASE choice \in { <<"Q">>, <<"q">> } -> "quit"
      [] choice \in { <<"N">>, <<"n">> } -> "next"
      [] OTHER -> "invalid"

MenuPrompt == "Q: Quit | N: Next => "

(* ------------------------------ capture -------------------------------- *)
\* the handle has been opened (line 358)
Init ==
    /\ pc = "Opened"
    /\ keymaps = <<>>
    /\ s = <<>>
    /\ devq \in {<<>>} \cup { <<r>> : r \in Reports }
    /\ out = <<>>
    /\ file \in {NoFile, OldFile}
    /\ exit = -1
    /\ good = <<>>
    /\ failed = <<>>
    /\ stale = FALSE
    /\ leftover = FALSE
    /\ lastDrain = "none"
    /\ persist = <<>>
    /\ bus = <<>>
    /\ di = 0
    /\ usb_devices = <<>>
    /\ result = "none"
    /\ lookup = <<>>
    /\ class_byte = 0 /\ category = "none"
    /\ ops = <<>>
    /\ nexts = 0

\* fault: the interface claimed before the kernel driver is detached
SetupCalls_ClaimFirst ==
    <<"set_active_configuration", "claim_interface", "detach_kernel_driver">>

\* handler.set_active_configuration(config); detach_kernel_driver(interface);
\* claim_interface(interface): the Result of each is dropped
SetupCalls ==
    <<"set_active_configuration", "detach_kernel_driver", "claim_interface">>

\* lines 360-364, up to the first drain read
Setup ==
    /\ pc = "Opened"
    /\ ops' = ops \o SetupCalls
    /\ pc' = "Draining"
    /\ UNCHANGED <<keymaps, s, devq, out, file, exit,
                   good, failed, stale, leftover, lastDrain, persist, nexts>>
    /\ UNCHANGED enum_vars
    /\ UNCHANGED class_vars

\* the device puts a report up for the endpoint (the operator touches a key)
DeviceReport ==
    /\ pc \in {"Draining", "AwaitingName", "AwaitingKeyPress", "AwaitingMenuChoice"}
    /\ Len(devq) < MaxQueue
    /\ \E r \in Reports : devq' = Append(devq, r)
    /\ UNCHANGED <<pc, keymaps, s, out, file, exit,
                   good, failed, stale, leftover, lastDrain, persist>>
    /\ UNCHANGED enum_vars
    /\ UNCHANGED class_vars
    /\ UNCHANGED <<ops, nexts>>

\* unwrap() of a None or an Err: the process panics and exits with the
\* status of a panicked Rust process, 101
Panic ==
    /\ pc' = "Panicked"
    /\ exit' = 101
    /\ out' = <<"panic">>

\* one iteration of the inner drain loop; leaving it prints the name prompt
DrainOn(res) ==
    /\ pc = "Draining"
    /\ LET size == unwrap_or_0(res) IN
        /\ devq' = res.rest
        /\ lastDrain' = IF ~res.ok THEN "failed"
                        ELSE IF res.size = 0 THEN "zero" ELSE "data"
        /\ IF DrainBreak(size)
           THEN pc' = "AwaitingName" /\ out' = <<"Input a name: ">>
           ELSE pc' = "Draining" /\ out' = <<>>
    /\ UNCHANGED <<keymaps, s, file, exit, good, failed, stale, leftover, persist>>
    /\ UNCHANGED enum_vars
    /\ UNCHANGED class_vars
    /\ UNCHANGED <<ops, nexts>>
Drain == \E res \in TimedRead(devq) : DrainOn(res)

\* stdin().read_line(&mut s).unwrap(), the key prompt, and the read without
\* timeout is issued
NameOn(r) ==
    /\ pc = "AwaitingName"
    /\ IF r.ok
       THEN /\ s' = r.line
            /\ pc' = "AwaitingKeyPress"
            /\ out' = <<"Press a button on your keyboard: ">>
            /\ stale' = (devq # <<>>)
            /\ UNCHANGED exit
       ELSE Panic /\ UNCHANGED <<s, stale>>
    /\ UNCHANGED <<keymaps, devq, file, good, failed, leftover, lastDrain, persist>>
    /\ UNCHANGED enum_vars
    /\ UNCHANGED class_vars
    /\ UNCHANGED <<ops, nexts>>
Name == \E r \in ReadLineResults(NameLines) : NameOn(r)

\* the read without timeout returns (its Result is dropped), the entry is
\* pushed and the menu prompt is printed
KeyPressOn(res) ==
    /\ pc = "AwaitingKeyPress"
    /\ LET keyname == strip_suffix(s) IN
        /\ devq' = res.rest
        /\ good' = IF res.ok /\ keyname.some
                   THEN Append(good, Keymap(keyname.val, res.buf)) ELSE good
        /\ failed' = IF res.ok \/ failed # <<>> THEN failed ELSE <<good>>
        /\ stale' = FALSE
        /\ IF keyname.some
           THEN /\ keymaps' = push(keymaps, Keymap(keyname.val, res.buf))
                /\ leftover' = (leftover \/ (res.ok /\ stale))
                /\ pc' = "AwaitingMenuChoice"
                /\ out' = <<"Key", "-----", MenuPrompt>>
                /\ UNCHANGED exit
           ELSE Panic /\ UNCHANGED <<keymaps, leftover>>
    /\ UNCHANGED <<s, file, lastDrain, persist>>
    /\ UNCHANGED enum_vars
    /\ UNCHANGED class_vars
    /\ UNCHANGED <<ops, nexts>>
KeyPress == \E res \in BlockingRead(devq) : KeyPressOn(res)

\* the Keymap Store, lines 416-418, and the return through main: to_string
\* and File::create are unwrapped, the Result of write_all is dropped, and
\* main returns Ok(())
StoreOutcomes == {"ok", "serialize_err", "create_err", "write_err"}
\* fault: the file opened without truncation, the text written after the
\* earlier content
Store_Append(o) ==
    LET text == to_string(keymaps) IN
    /\ persist' = Append(persist, [outcome |-> o, entries |-> keymaps])
    /\ CASE o = "ok" ->
              /\ file' = [exists |-> TRUE, text |-> file.text \o text]
              /\ pc' = "Terminated" /\ exit' = 0 /\ out' = <<"-----">>
         [] o = "write_err" ->
              /\ \E n \in 0..(Len(text) - 1) :
                    file' = [exists |-> TRUE, text |-> SubSeq(text, 1, n)]
              /\ pc' = "Terminated" /\ exit' = 0 /\ out' = <<"-----">>
         [] OTHER ->
              Panic /\ UNCHANGED file

Store(o) ==
    LET text == to_string(keymaps) IN
    /\ persist' = Append(persist, [outcome |-> o, entries |-> keymaps])
    /\ CASE o = "ok" ->
              /\ file' = [exists |-> TRUE, text |-> text]
              /\ pc' = "Terminated" /\ exit' = 0 /\ out' = <<"-----">>
         [] o = "write_err" ->
              /\ \E n \in 0..(Len(text) - 1) :
                    file' = [exists |-> TRUE, text |-> SubSeq(text, 1, n)]
              /\ pc' = "Terminated" /\ exit' = 0 /\ out' = <<"-----">>
         [] OTHER ->
              Panic /\ UNCHANGED file

\* stdin().read_line(&mut s).unwrap(), strip_suffix("\n").unwrap() and the
\* match on the choice
MenuChoiceOn(r) ==
    /\ pc = "AwaitingMenuChoice"
    /\ LET choice == strip_suffix(r.line) IN
        IF ~r.ok \/ ~choice.some
        THEN Panic /\ UNCHANGED <<file, lastDrain, persist, nexts>>
        ELSE CASE MatchChoice(choice.val) = "quit" ->
                    (\E o \in StoreOutcomes : Store(o)) /\ UNCHANGED <<lastDrain, nexts>>
               [] MatchChoice(choice.val) = "next" ->
                    /\ Len(keymaps) < MaxKeys
                    /\ pc' = "Draining"
                    /\ out' = <<"-----">>
                    /\ lastDrain' = "none"
                    /\ nexts' = nexts + 1
                    /\ UNCHANGED <<file, exit, persist>>
               [] OTHER ->
                    /\ pc' = "AwaitingMenuChoice"
                    /\ out' = <<"-----", "is not a valid option", MenuPrompt>>
                    /\ UNCHANGED <<file, exit, lastDrain, persist, nexts>>
    /\ UNCHANGED <<keymaps, s, devq, good, failed, stale, leftover>>
    /\ UNCHANGED enum_vars
    /\ UNCHANGED class_vars
    /\ UNCHANGED ops
MenuChoice == \E r \in ReadLineResults(MenuLines) : MenuChoiceOn(r)

Next == Setup \/ DeviceReport \/ Drain \/ Name \/ KeyPress \/ MenuChoice

Spec == Init /\ [][Next]_vars

\* the drain read that ends the loop of line 367: zero bytes or a failure
DrainEnd == \E res \in TimedRead(devq) : unwrap_or_0(res) = 0 /\ DrainOn(res)

\* the operator enters Q or q at the menu prompt of line 400
Quit ==
    \E r \in ReadLineResults(MenuLines) :
        /\ r.ok /\ strip_suffix(r.line).some
        /\ MatchChoice(strip_suffix(r.line).val) = "quit"
        /\ MenuChoiceOn(r)

\* The session under the scheduling of write_to_device: the set-up calls
\* return, each round's drain loop gets an empty or failed read, the
\* operator answers the name prompt, the read without timeout returns, and
\* Q or q is entered at some menu prompt.
SpecLive ==
    /\ Init /\ [][Next]_vars
    /\ WF_vars(Setup) /\ WF_vars(DrainEnd) /\ WF_vars(Name)
    /\ WF_vars(KeyPress) /\ SF_vars(Quit)

(* ----------------------------- enumeration ----------------------------- *)
\* most raw devices on the bus
MaxDevices == 2

\* fault: the arm of Physical written for 0x04 instead of 0x05
from_u8_Shifted(num) ==
    CASE num = 1 -> "Audio"
      [] num = 2 -> "CommunicationAndCdcDescriptors"
      [] num = 3 -> "HumanInterfaceDevice"
      [] num = 4 -> "Physical"
      [] num = 6 -> "Image"
      [] num = 7 -> "Printer"
      [] num = 8 -> "MassStorage"
      [] num = 9 -> "Hub"
      [] num = 10 -> "CdcData"
      [] num = 11 -> "SmartCard"
      [] num = 13 -> "ContentSecurity"
      [] num = 14 -> "Video"
      [] num = 15 -> "PersonalHealthcare"
      [] num = 16 -> "AudioVideoDevices"
      [] num = 17 -> "BillboardDeviceClass"
      [] num = 18 -> "USBTypeCBridgeClass"
      [] num = 19 -> "USBBulkDisplayProtocolDeviceClass"
      [] num = 20 -> "MCTPOverUSBProtocolDeviceClass"
      [] num = 60 -> "I3CDeviceClass"
      [] num = 220 -> "DiagnosticDevice"
      [] num = 224 -> "WirelessController"
      [] num = 239 -> "Miscellaneous"
      [] num = 254 -> "ApplicationSpecific"
      [] num = 255 -> "VenderSpecific"
      [] OTHER -> "Unknown"

\* ClassCode::from_u8
from_u8(num) ==
    CASE num = 1 -> "Audio"
      [] num = 2 -> "CommunicationAndCdcDescriptors"
      [] num = 3 -> "HumanInterfaceDevice"
      [] num = 5 -> "Physical"
      [] num = 6 -> "Image"
      [] num = 7 -> "Printer"
      [] num = 8 -> "MassStorage"
      [] num = 9 -> "Hub"
      [] num = 10 -> "CdcData"
      [] num = 11 -> "SmartCard"
      [] num = 13 -> "ContentSecurity"
      [] num = 14 -> "Video"
      [] num = 15 -> "PersonalHealthcare"
      [] num = 16 -> "AudioVideoDevices"
      [] num = 17 -> "BillboardDeviceClass"
      [] num = 18 -> "USBTypeCBridgeClass"
      [] num = 19 -> "USBBulkDisplayProtocolDeviceClass"
      [] num = 20 -> "MCTPOverUSBProtocolDeviceClass"
      [] num = 60 -> "I3CDeviceClass"
      [] num = 220 -> "DiagnosticDevice"
      [] num = 224 -> "WirelessController"
      [] num = 239 -> "Miscellaneous"
      [] num = 254 -> "ApplicationSpecific"
      [] num = 255 -> "VenderSpecific"
      [] OTHER -> "Unknown"

\* format!("{:04x}", n) of a u16: four lowercase hexadecimal digits
HexDigits == <<"0", "1", "2", "3", "4", "5", "6", "7",
               "8", "9", "a", "b", "c", "d", "e", "f">>
Hex04(n) ==
    << HexDigits[((n \div 4096) % 16) + 1], HexDigits[((n \div 256) % 16) + 1],
       HexDigits[((n \div 16) % 16) + 1], HexDigits[(n % 16) + 1] >>

\* DeviceInfo::get_id
get_id(info) == info.vendor_id \o <<":">> \o info.product_id

\* the descriptors the transport exposes --------------------------------
RawEndpoint(addr, mps) == [address |-> addr, max_packet_size |-> mps, interval |-> 10]
RawAlt(num, class, eps) ==
    [interface_number |-> num, num_endpoints |-> Len(eps), class_code |-> class,
     sub_class_code |-> 1, endpoint_descriptors |-> eps]
RawConfig(ok, num, ifaces) ==
    [ok |-> ok, number |-> num, max_power |-> 100, self_powered |-> FALSE,
     remote_wakeup |-> TRUE, num_interfaces |-> Len(ifaces), interfaces |-> ifaces]
RawDevice(ok, vid, pid, class, ncfg, cfgs) ==
    [ok |-> ok, vendor_id |-> vid, product_id |-> pid, class_code |-> class,
     sub_class_code |-> 0, protocol_code |-> 0, max_packet_size |-> 64,
     num_configurations |-> ncfg, configs |-> cfgs]

\* a keyboard configuration: interface 0 with one alternate setting,
\* interface 1 with two, the second one carrying two endpoints
KbdConfig ==
    RawConfig(TRUE, 1,
        << << RawAlt(0, 3, << RawEndpoint(129, 8) >>) >>,
           << RawAlt(1, 3, << RawEndpoint(130, 8) >>),
              RawAlt(1, 3, << RawEndpoint(130, 8), RawEndpoint(2, 8) >>) >> >>)
HubConfig == RawConfig(TRUE, 1, << << RawAlt(0, 9, << RawEndpoint(129, 2) >>) >> >>)
BadConfig == RawConfig(FALSE, 0, <<>>)

Keyboard == RawDevice(TRUE, 1240, 221, 0, 1, <<KbdConfig>>)
\* a second device reporting the keyboard's vendor:product
KeyboardTwin == RawDevice(TRUE, 1240, 221, 239, 2, <<HubConfig, KbdConfig>>)
RootHub == RawDevice(TRUE, 7531, 2, 9, 1, <<HubConfig>>)
\* its device descriptor cannot be read
Unreadable == RawDevice(FALSE, 0, 0, 0, 0, <<>>)
\* its second configuration descriptor cannot be read
HalfReadable == RawDevice(TRUE, 1133, 49948, 0, 2, <<KbdConfig, BadConfig>>)
RawDevices == {Keyboard, KeyboardTwin, RootHub, Unreadable, HalfReadable}

RECURSIVE SeqsUpTo(_, _)
SeqsUpTo(S, n) ==
    IF n = 0 THEN {<<>>}
    ELSE LET shorter == SeqsUpTo(S, n - 1) IN
         shorter \cup { Append(q, x) : q \in shorter, x \in S }

\* Endpoint::new
Endpoint_new(ep) ==
    [max_packet_size |-> ep.max_packet_size,
     endpoint_number |-> ep.address % 16,
     interval |-> ep.interval,
     address |-> ep.address,
     direction |-> IF ep.address >= 128 THEN "In" ELSE "Out"]

\* Interfaces::new
Interfaces_new(i) ==
    [number |-> i.interface_number,
     num_endpoints |-> i.num_endpoints,
     interface_number |-> i.interface_number,
     class_code |-> from_u8(i.class_code),
     subclass_code |-> i.sub_class_code,
     endpoints |-> [k \in 1..Len(i.endpoint_descriptors) |->
                        Endpoint_new(i.endpoint_descriptors[k])]]

\* fault: only the first alternate setting of each interface is pushed
RECURSIVE PushInterfaces_FirstAlt(_, _)
PushInterfaces_FirstAlt(acc, ifaces) ==
    IF ifaces = <<>> THEN acc
    ELSE PushInterfaces_FirstAlt(
            IF Head(ifaces) = <<>> THEN acc
            ELSE Append(acc, Interfaces_new(Head(ifaces)[1])),
            Tail(ifaces))

\* the two nested loops over c.interfaces() and interface.descriptors(),
\* pushing one Interfaces per alternate setting
RECURSIVE PushInterfaces(_, _)
PushInterfaces(acc, ifaces) ==
    IF ifaces = <<>> THEN acc
    ELSE PushInterfaces(
            acc \o [k \in 1..Len(Head(ifaces)) |-> Interfaces_new(Head(ifaces)[k])],
            Tail(ifaces))

\* i.config_descriptor(c): the descriptor, or an error
config_descriptor(raw, c) ==
    IF c + 1 <= Len(raw.configs) THEN raw.configs[c + 1] ELSE BadConfig

\* fault: a configuration whose descriptor cannot be read is left out and
\* the device is pushed with the others
RECURSIVE PushConfigs_SkipUnreadable(_, _, _)
PushConfigs_SkipUnreadable(raw, acc, c) ==
    IF c >= raw.num_configurations THEN [ok |-> TRUE, configurations |-> acc]
    ELSE LET cd == config_descriptor(raw, c) IN
         PushConfigs_SkipUnreadable(raw,
            IF ~cd.ok THEN acc
            ELSE Append(acc, [number |-> cd.number,
                              max_power |-> cd.max_power,
                              self_powered |-> cd.self_powered,
                              remote_wakeup |-> cd.remote_wakeup,
                              num_interfaces |-> cd.num_interfaces,
                              interfaces |-> PushInterfaces(<<>>, cd.interfaces)]),
            c + 1)

\* the body of `for c in 0..d.num_configurations()` from index c on: Err as
\* soon as one configuration descriptor cannot be read (the ? operator)
RECURSIVE PushConfigs(_, _, _)
PushConfigs(raw, acc, c) ==
    IF c >= raw.num_configurations THEN [ok |-> TRUE, configurations |-> acc]
    ELSE LET cd == config_descriptor(raw, c) IN
         IF ~cd.ok THEN [ok |-> FALSE, configurations |-> acc]
         ELSE PushConfigs(raw,
                Append(acc, [number |-> cd.number,
                             max_power |-> cd.max_power,
                             self_powered |-> cd.self_powered,
                             remote_wakeup |-> cd.remote_wakeup,
                             num_interfaces |-> cd.num_interfaces,
                             interfaces |-> PushInterfaces(<<>>, cd.interfaces)]),
                c + 1)

\* the DeviceInfo built from the device descriptor, lines 264-273
DeviceInfo(raw, configurations) ==
    [vendor_id |-> Hex04(raw.vendor_id),
     product_id |-> Hex04(raw.product_id),
     class_code |-> from_u8(raw.class_code),
     subclass_code |-> raw.sub_class_code,
     num_configurations |-> raw.num_configurations,
     protocol_code |-> raw.protocol_code,
     max_packet_size |-> raw.max_packet_size,
     configurations |-> configurations]

InitEnum ==
    /\ pc = "Context"
    /\ keymaps = <<>> /\ s = <<>> /\ devq = <<>> /\ out = <<>>
    /\ file = NoFile /\ exit = -1
    /\ good = <<>> /\ failed = <<>> /\ stale = FALSE /\ leftover = FALSE
    /\ lastDrain = "none" /\ persist = <<>>
    /\ bus \in SeqsUpTo(RawDevices, MaxDevices)
    /\ di = 0
    /\ usb_devices = <<>>
    /\ result = "none"
    /\ lookup = <<>>
    /\ class_byte = 0 /\ category = "none"
    /\ ops = <<>>
    /\ nexts = 0

\* libusb::Context::new()? and ctx.devices()?
ContextNew ==
    /\ pc = "Context"
    /\ \E ok \in BOOLEAN :
        IF ok
        THEN pc' = "Enumerating" /\ di' = 1 /\ UNCHANGED result
        ELSE pc' = "Returned" /\ result' = "ContextErr" /\ UNCHANGED di
    /\ UNCHANGED <<bus, usb_devices>>
    /\ UNCHANGED session_vars
    /\ UNCHANGED class_vars
    /\ UNCHANGED lookup

\* one iteration of `for i in devices.iter()`: either ? returns the error
\* from UsbDevices::new, dropping what was built
EnumDevice ==
    /\ pc = "Enumerating"
    /\ di <= Len(bus)
    /\ LET raw == bus[di]
           built == PushConfigs(raw, <<>>, 0) IN
       IF raw.ok /\ built.ok
       THEN /\ usb_devices' = Append(usb_devices, DeviceInfo(raw, built.configurations))
            /\ di' = di + 1
            /\ UNCHANGED <<pc, result>>
       ELSE /\ pc' = "Returned"
            /\ result' = "DescriptorErr"
            /\ usb_devices' = <<>>
            /\ UNCHANGED di
    /\ UNCHANGED bus
    /\ UNCHANGED session_vars
    /\ UNCHANGED class_vars
    /\ UNCHANGED lookup

\* Ok(usb_devices)
EnumReturn ==
    /\ pc = "Enumerating"
    /\ di > Len(bus)
    /\ pc' = "Returned"
    /\ result' = "Ok"
    /\ UNCHANGED <<bus, di, usb_devices>>
    /\ UNCHANGED session_vars
    /\ UNCHANGED class_vars
    /\ UNCHANGED lookup

\* the identity strings asked for: those of the keyboard, the root hub and
\* the half readable device, and two that no device formats to (upper case,
\* not zero-padded)
LookupIds ==
    { Hex04(1240) \o <<":">> \o Hex04(221),
      Hex04(7531) \o <<":">> \o Hex04(2),
      Hex04(1133) \o <<":">> \o Hex04(49948),
      <<"0", "4", "D", "8", ":", "0", "0", "D", "D">>,
      <<"4", "d", "8", ":", "d", "d">> }

\* fault: the last device with that identity, not the first
RECURSIVE get_by_id_Last(_, _)
get_by_id_Last(devices, id) ==
    IF devices = <<>> THEN None
    ELSE IF get_id(devices[Len(devices)]) = id THEN Some(devices[Len(devices)])
    ELSE get_by_id_Last(SubSeq(devices, 1, Len(devices) - 1), id)

\* UsbDevices::get_by_id: iter().find(|e| e.get_id() == id).map(clone)
RECURSIVE get_by_id(_, _)
get_by_id(devices, id) ==
    IF devices = <<>> THEN None
    ELSE IF get_id(Head(devices)) = id THEN Some(Head(devices))
    ELSE get_by_id(Tail(devices), id)

\* get_device_info with a device argument, after UsbDevices::new()? gave
\* Ok: the device is printed, or "[device .. not found.]", and Ok(())
GetDeviceInfo ==
    /\ pc = "Returned"
    /\ result = "Ok"
    /\ \E id \in LookupIds :
          lookup' = <<[id |-> id, res |-> get_by_id(usb_devices, id)]>>
    /\ pc' = "LookedUp"
    /\ UNCHANGED <<bus, di, usb_devices, result>>
    /\ UNCHANGED session_vars
    /\ UNCHANGED class_vars

NextEnum == ContextNew \/ EnumDevice \/ EnumReturn \/ GetDeviceInfo

SpecEnum == InitEnum /\ [][NextEnum]_vars

(* ----------------------------- class codes ----------------------------- *)
\* the values of a u8
Bytes == 0..255

InitClass ==
    /\ pc = "Resolve"
    /\ keymaps = <<>> /\ s = <<>> /\ devq = <<>> /\ out = <<>>
    /\ file = NoFile /\ exit = -1
    /\ good = <<>> /\ failed = <<>> /\ stale = FALSE /\ leftover = FALSE
    /\ lastDrain = "none" /\ persist = <<>>
    /\ bus = <<>> /\ di = 0 /\ usb_devices = <<>> /\ result = "none"
    /\ lookup = <<>>
    /\ ops = <<>> /\ nexts = 0
    /\ class_byte \in Bytes
    /\ category = "none"

\* a call of ClassCode::from_u8, as in lines 198 and 267
Resolve ==
    /\ pc = "Resolve"
    /\ category' = from_u8(class_byte)
    /\ pc' = "Resolved"
    /\ UNCHANGED class_byte
    /\ UNCHANGED session_vars
    /\ UNCHANGED enum_vars

NextClass == Resolve

SpecClass == InitClass /\ [][NextClass]_vars

(* ------------------------------- claims -------------------------------- *)
LoopStates == {"Draining", "AwaitingName", "AwaitingKeyPress", "AwaitingMenuChoice"}

\* C1: at every point of a capture session the accumulator is exactly the
\* list of one {name, report} entry per blocking capture read that completed
\* with a report, each pairing the name entered in that round with the
\* buffer that read filled, in capture order; nothing else is ever in it.
C1_AccumulatorIsCaptures == keymaps = good

\* C2: once a blocking capture read has failed the session is aborted: it is
\* in none of the loop's states any more, and the accumulator holds no entry
\* for the failed read (it is what had been captured before the failure).
C2_FailedCaptureAborts ==
    failed # <<>> => (pc \notin LoopStates /\ keymaps = failed[1])

\* the devices of the bus whose device descriptor and configuration
\* descriptors can all be read
Readable(raw) == raw.ok /\ PushConfigs(raw, <<>>, 0).ok
RECURSIVE BuildReadable(_)
BuildReadable(devs) ==
    IF devs = <<>> THEN <<>>
    ELSE LET rest == BuildReadable(Tail(devs))
             raw == Head(devs) IN
         IF Readable(raw)
         THEN <<DeviceInfo(raw, PushConfigs(raw, <<>>, 0).configurations)>> \o rest
         ELSE rest

\* C3: UsbDevices::new fails only when the enumeration context cannot be
\* created; a device whose descriptors cannot be read is skipped, and the
\* returned collection holds, in enumeration order, a DeviceInfo for every
\* other device.
C3_UnreadableDeviceSkipped ==
    (pc = "Returned" /\ result # "ContextErr")
        => (result = "Ok" /\ usb_devices = BuildReadable(bus))

\* the read_line results that are a line (newline-terminated) holding
\* something other than exactly Q, q, N or n
IsLine(r) == r.ok /\ strip_suffix(r.line).some
ValidChoices == { <<"Q">>, <<"q">>, <<"N">>, <<"n">> }
InvalidLine(r) == IsLine(r) /\ strip_suffix(r.line).val \notin ValidChoices
ValidLine(r) == IsLine(r) /\ strip_suffix(r.line).val \in ValidChoices

\* an invalid line leaves the session at the menu prompt: accumulator,
\* device queue, file and exit status untouched, the rejection and the same
\* prompt printed
Reprompted ==
    /\ pc' = "AwaitingMenuChoice"
    /\ UNCHANGED <<keymaps, devq, good, file, exit, persist>>
    /\ out' = <<"-----", "is not a valid option", MenuPrompt>>
InvalidChoiceReprompts ==
    \A r \in ReadLineResults(MenuLines) :
        (InvalidLine(r) /\ MenuChoiceOn(r)) => Reprompted

\* C4 (as stated): at the menu prompt every input line other than exactly
\* Q, q, N or n leaves the session there, accumulator unchanged, no device
\* read issued, same prompt shown again; only the lines Q/q and N/n make the
\* session leave AwaitingMenuChoice.
C4_OnlyQuitOrNextLeaves ==
    [][pc = "AwaitingMenuChoice" =>
          /\ InvalidChoiceReprompts
          /\ pc' # pc =>
                \E r \in ReadLineResults(MenuLines) : ValidLine(r) /\ MenuChoiceOn(r)]_vars

\* C4 (amended): at the menu prompt every newline-terminated input line other
\* than exactly Q, q, N or n leaves the session there, accumulator unchanged,
\* no device read issued, same prompt shown again, however often repeated;
\* AwaitingMenuChoice is left only by Q/q (terminate), by N/n (back to
\* Draining), or by a panic of the process when the console read fails or
\* returns no newline-terminated line (end of input).
C4_InvalidChoiceStays ==
    [][pc = "AwaitingMenuChoice" =>
          /\ InvalidChoiceReprompts
          /\ pc' # pc =>
                \E r \in ReadLineResults(MenuLines) :
                    /\ MenuChoiceOn(r)
                    /\ \/ ValidLine(r) /\ MatchChoice(strip_suffix(r.line).val) = "quit"
                                  /\ pc' \in {"Terminated", "Panicked"}
                       \/ ValidLine(r) /\ MatchChoice(strip_suffix(r.line).val) = "next"
                                  /\ pc' = "Draining"
                       \/ ~IsLine(r) /\ pc' = "Panicked"]_vars
\* an invalid choice was rejected after a second key had been captured
C4_Witness ==
    /\ pc = "AwaitingMenuChoice"
    /\ out = <<"-----", "is not a valid option", MenuPrompt>>
    /\ Len(keymaps) = 2

\* C5: whatever the interleaving of report arrivals with the session, no
\* stored report is one the device already held queued when the blocking
\* read of its round was issued.
C5_CapturedReportIsFresh == ~leftover

Edges ==
    { <<"Draining", "AwaitingName">>, <<"AwaitingName", "AwaitingKeyPress">>,
      <<"AwaitingKeyPress", "AwaitingMenuChoice">>,
      <<"AwaitingMenuChoice", "Draining">>, <<"AwaitingMenuChoice", "Terminated">> }
\* the loop is entered once the handle is set up
EntryEdges == { <<"Opened", "Draining">> }
\* the process dying at an unwrap is the end of the session, not a state of it
AbortEdges ==
    { <<"AwaitingName", "Panicked">>, <<"AwaitingKeyPress", "Panicked">>,
      <<"AwaitingMenuChoice", "Panicked">> }

\* C6: the session moves Draining -> AwaitingName -> AwaitingKeyPress ->
\* AwaitingMenuChoice -> (Draining | Terminated) and in no other order; in
\* every round the name prompt and the blocking read come only after the
\* drain loop of that round ended on a zero-byte or failed read.
C6_StateOrder ==
    /\ [](pc \in {"AwaitingName", "AwaitingKeyPress"} => lastDrain \in {"zero", "failed"})
    /\ [][pc' # pc => <<pc, pc'>> \in Edges \cup EntryEdges \cup AbortEdges]_vars
\* the blocking read of a second round is pending
C6_Witness == pc = "AwaitingKeyPress" /\ Len(keymaps) = 1

\* C7: a drain read that fails is handled like one returning zero bytes: the
\* loop ends, the session goes on to AwaitingName, accumulator unchanged,
\* process not aborted; a read of more than zero bytes is discarded and the
\* loop reads again.
C7_FailedDrainIsNoData ==
    [][pc = "Draining" =>
          \A res \in TimedRead(devq) :
              DrainOn(res) =>
                  /\ keymaps' = keymaps /\ exit' = -1
                  /\ IF ~res.ok \/ res.size = 0
                     THEN pc' = "AwaitingName" /\ devq' = devq
                     ELSE pc' = "Draining" /\ devq' = Tail(devq)]_vars
\* a drain read failed while a report was still queued, and the session
\* went on to the name prompt
C7_Witness == pc = "AwaitingName" /\ lastDrain = "failed" /\ devq # <<>>

\* C8: a session in which a blocking capture read failed after k entries had
\* been captured hands exactly those k entries, in order, to the Keymap
\* Store.
C8_PartialKeymapStored ==
    (failed # <<>> /\ pc = "Terminated")
        => (Len(persist) = 1 /\ persist[1].entries = failed[1])

\* C9: when serialising the entries or creating or writing the keymap file
\* fails, the failure is reported and the process exits with a non-zero
\* status.
C9_FailedStoreExitsNonZero ==
    \A i \in DOMAIN persist :
        persist[i].outcome # "ok" => (exit > 0 /\ out = <<"panic">>)

\* config.json holds exactly these entries, in this order
FileHolds(ks) ==
    /\ file.exists
    /\ Len(file.text) = Len(ks)
    /\ \A i \in 1..Len(ks) :
          file.text[i] = <<"key_name", ks[i].key_name, "map", ks[i].map>>

\* C10 (as stated): a session ends only through Q/q at the menu prompt, and
\* when it has ended the Keymap Store has been invoked exactly once with the
\* complete accumulated sequence.
C10_EndsOnlyByQuit ==
    exit # -1 => (pc = "Terminated" /\ Len(persist) = 1 /\ persist[1].entries = keymaps)

\* C10 (amended): a session returns normally only through Q/q at the menu
\* prompt; the only other way it ends is a panic of the process (console
\* read failed or at end of input, entries not serialisable, file not
\* creatable), which writes nothing. When it ends through Q/q the Keymap
\* Store is invoked exactly once, after the last capture, with the complete
\* accumulated sequence in order, and when creating and writing succeed the
\* file holds exactly that sequence in place of any earlier content. Nothing
\* is persisted before termination.
C10_QuitStoresOnce ==
    /\ [](exit # -1 => pc \in {"Terminated", "Panicked"})
    /\ [](pc = "Terminated" =>
            /\ Len(persist) = 1 /\ persist[1].entries = keymaps
            /\ persist[1].outcome = "ok" => FileHolds(keymaps))
    /\ [](pc = "Panicked" =>
            \A i \in DOMAIN persist : persist[i].outcome \in {"serialize_err", "create_err"})
    /\ [][pc' # "Terminated" => file' = file]_vars
    /\ [][(pc' = "Terminated" /\ pc # "Terminated") =>
            \E r \in ReadLineResults(MenuLines) :
                /\ IsLine(r) /\ strip_suffix(r.line).val \in { <<"Q">>, <<"q">> }
                /\ MenuChoiceOn(r)]_vars
\* a session of two captures ended through Q/q and its file was written
C10_Witness ==
    /\ pc = "Terminated" /\ Len(keymaps) = 2
    /\ persist[1].outcome = "ok" /\ FileHolds(keymaps)

\* the positions of the collection whose identity is the one asked for
Matches(id) == { k \in 1..Len(usb_devices) : get_id(usb_devices[k]) = id }
First(S) == CHOOSE k \in S : \A j \in S : k <= j

\* C11: get_by_id(id) is None when no device's "vvvv:pppp" identity equals
\* id, and otherwise the DeviceInfo of the first device in enumeration order
\* with that identity, also when several devices share it; a missing device
\* is not an error.
C11_LookupFirstMatch ==
    lookup # <<>> =>
        LET id == lookup[1].id
            res == lookup[1].res IN
        /\ result = "Ok" /\ exit = -1
        /\ Matches(id) = {} => ~res.some
        /\ Matches(id) # {} =>
              /\ res.some
              /\ res.val = usb_devices[First(Matches(id))]
              /\ res.val.vendor_id = Hex04(bus[First(Matches(id))].vendor_id)
              /\ res.val.class_code = from_u8(bus[First(Matches(id))].class_code)
\* two devices share the identity asked for, the second of them differs
C11_Witness ==
    /\ lookup # <<>>
    /\ Cardinality(Matches(lookup[1].id)) = 2
    /\ usb_devices[1] # usb_devices[2]
\* the identity asked for is absent
C11_WitnessAbsent ==
    lookup # <<>> /\ usb_devices # <<>> /\ ~lookup[1].res.some

\* C12: every DeviceInfo in the collection is completely built: it has
\* exactly num_configurations configurations, the i-th of them built from
\* configuration index i-1 of its device; no DeviceInfo with fewer
\* configurations than declared is ever in a collection.
C12_CompletelyBuilt ==
    \A k \in 1..Len(usb_devices) :
        LET info == usb_devices[k] IN
        /\ k <= Len(bus)
        /\ info.num_configurations = bus[k].num_configurations
        /\ Len(info.configurations) = info.num_configurations
        /\ \A i \in 1..Len(info.configurations) :
              LET cd == config_descriptor(bus[k], i - 1) IN
              /\ cd.ok
              /\ info.configurations[i].number = cd.number
              /\ info.configurations[i].num_interfaces = cd.num_interfaces
\* a collection was returned that holds a device of two configurations
C12_Witness ==
    /\ pc = "Returned" /\ result = "Ok"
    /\ \E k \in 1..Len(usb_devices) : Len(usb_devices[k].configurations) = 2

\* the alternate-setting descriptors of a configuration, interface by
\* interface, each interface's descriptors in order
RECURSIVE Concat(_)
Concat(ss) == IF ss = <<>> THEN <<>> ELSE Head(ss) \o Concat(Tail(ss))
RECURSIVE Sum(_)
Sum(ns) == IF ns = <<>> THEN 0 ELSE Head(ns) + Sum(Tail(ns))
\* endpoints in the built tree of a device, endpoint descriptors it exposes
TreeEndpoints(info) ==
    Sum(Concat([c \in 1..Len(info.configurations) |->
            [j \in 1..Len(info.configurations[c].interfaces) |->
                Len(info.configurations[c].interfaces[j].endpoints)]]))
RawEndpoints(raw) ==
    Sum(Concat([c \in 1..raw.num_configurations |->
            [j \in 1..Len(Concat(raw.configs[c].interfaces)) |->
                Len(Concat(raw.configs[c].interfaces)[j].endpoint_descriptors)]]))

\* C15: in every built DeviceInfo each configuration's interfaces list is
\* the sequence of alternate-setting descriptors of its interfaces, in the
\* transport's order, and each entry's endpoints list is that descriptor's
\* endpoint descriptors in order; nothing is sorted, dropped or duplicated,
\* so the tree has as many endpoints as the device exposes descriptors.
C15_OrderAndMultiplicity ==
    \A k \in 1..Len(usb_devices) :
        LET info == usb_devices[k] IN
        /\ \A c \in 1..Len(info.configurations) :
              LET alts == Concat(config_descriptor(bus[k], c - 1).interfaces)
                  built == info.configurations[c].interfaces IN
              /\ Len(built) = Len(alts)
              /\ \A j \in 1..Len(built) :
                    /\ built[j].interface_number = alts[j].interface_number
                    /\ built[j].class_code = from_u8(alts[j].class_code)
                    /\ Len(built[j].endpoints) = Len(alts[j].endpoint_descriptors)
                    /\ \A e \in 1..Len(built[j].endpoints) :
                          built[j].endpoints[e].address
                              = alts[j].endpoint_descriptors[e].address
        /\ TreeEndpoints(info) = RawEndpoints(bus[k])
\* a returned device has an interface with two alternate settings, the
\* second with two endpoints at different addresses
C15_Witness ==
    /\ pc = "Returned" /\ result = "Ok"
    /\ \E k \in 1..Len(usb_devices) :
        \E c \in 1..Len(usb_devices[k].configurations) :
            LET built == usb_devices[k].configurations[c].interfaces IN
            /\ Len(built) = 3
            /\ built[2].interface_number = built[3].interface_number
            /\ Len(built[3].endpoints) = 2
            /\ built[3].endpoints[1].address # built[3].endpoints[2].address

\* the variants of enum ClassCode
Categories ==
    { "Audio", "CommunicationAndCdcDescriptors", "HumanInterfaceDevice", "Physical",
      "Image", "Printer", "MassStorage", "Hub", "CdcData", "SmartCard",
      "ContentSecurity", "Video", "PersonalHealthcare", "AudioVideoDevices",
      "BillboardDeviceClass", "USBTypeCBridgeClass",
      "USBBulkDisplayProtocolDeviceClass", "MCTPOverUSBProtocolDeviceClass",
      "I3CDeviceClass", "DiagnosticDevice", "WirelessController", "Miscellaneous",
      "ApplicationSpecific", "VenderSpecific", "Unknown" }
\* the class codes the table assigns: 0x01-0x03, 0x05-0x0B, 0x0D-0x14, 0x3C,
\* 0xDC, 0xE0, 0xEF, 0xFE, 0xFF
AssignedCodes ==
    (1..3) \cup (5..11) \cup (13..20) \cup {60, 220, 224, 239, 254, 255}

\* C13: from_u8 gives every byte value exactly one category and never
\* fails; a value that is not an assigned class code gives Unknown, an
\* assigned code gives a category that is not Unknown and that no other
\* assigned code gives.
C13_ResolveTotal ==
    /\ pc = "Resolve" => from_u8(class_byte) \in Categories
    /\ pc = "Resolved" =>
          /\ category \in Categories
          /\ class_byte \notin AssignedCodes => category = "Unknown"
          /\ class_byte \in AssignedCodes =>
                /\ category # "Unknown"
                /\ \A m \in AssignedCodes \ {class_byte} : from_u8(m) # category
\* 0x04 was resolved, to Unknown
C13_Witness == pc = "Resolved" /\ class_byte = 4 /\ category = "Unknown"

\* str::trim of a key name: leading and trailing white space removed
WhiteSpace == { " ", "\t", "\r", "\n" }
RECURSIVE TrimStart(_)
TrimStart(str) ==
    IF str # <<>> /\ Head(str) \in WhiteSpace THEN TrimStart(Tail(str)) ELSE str
RECURSIVE TrimEnd(_)
TrimEnd(str) ==
    IF str # <<>> /\ str[Len(str)] \in WhiteSpace
    THEN TrimEnd(SubSeq(str, 1, Len(str) - 1)) ELSE str
Trim(str) == TrimEnd(TrimStart(str))

C16_SetupOnce ==
    /\ [](pc = "Opened" => ops = <<>> /\ lastDrain = "none" /\ keymaps = <<>>)
    /\ [](pc # "Opened" =>
            ops = <<"set_active_configuration", "detach_kernel_driver",
                    "claim_interface">>)
    /\ [][pc # "Opened" => ops' = ops]_vars
\* the drain loop of a second round is running
C16_Witness == pc = "Draining" /\ nexts = 1 /\ lastDrain = "data" /\ Len(ops) = 3

C18_EventuallyPersisted ==
    /\ <>(pc = "Terminated" /\ FileHolds(keymaps))
    /\ [][pc = "Draining" /\ lastDrain' = "data" => pc' = "Draining"]_vars

\* C18 (amended): under the same assumptions, and the operator answering
\* each name prompt, the session eventually ends, at Terminated or by a
\* panic of the process; at Terminated the entries have been handed to the
\* Keymap Store, and the file holds them exactly when the write succeeded.
\* A drain read returning a report keeps the session in Draining, however
\* many came before it.
C18_EventuallyEnds ==
    /\ <>(pc \in {"Terminated", "Panicked"})
    /\ [](pc = "Terminated" =>
            /\ Len(persist) = 1 /\ persist[1].entries = keymaps
            /\ persist[1].outcome = "ok" <=> FileHolds(keymaps))
    /\ [][pc = "Draining" /\ lastDrain' = "data" => pc' = "Draining"]_vars
\* a session whose drain loop ended on a failed read went on to Terminated
\* with its one entry written
C18_Witness ==
    /\ pc = "Terminated" /\ lastDrain = "failed" /\ Len(keymaps) = 1
    /\ persist[1].outcome = "ok" /\ FileHolds(keymaps)
====
